---- MODULE Spec2Model ----
(***************************************************************************)
(* chytorch LoRA layers: the LoRA Embedding (nn/lora/embedding.py) and the *)
(* transformer EncoderLayer (nn/lora/transformer.py).                      *)
(*                                                                         *)
(* Numbers.  Tensor entries are exact rationals.  The factors lora_a and   *)
(* lora_b hold integers; the base weight and every forward output hold    *)
(* integers counted in units of 1/Den, where every rank r <= MaxRank       *)
(* divides Den, so that lora_alpha / lora_r is exact.  Negative infinity   *)
(* is the value NegInf, absorbing under addition as in IEEE arithmetic.    *)
(* Rows and columns are numbered from 1: row i here is Python's row i-1.   *)
(***************************************************************************)
EXTENDS Integers, Sequences, FiniteSets, TLC

VARIABLES embedding,   \* the Embedding object: its attributes
          emb_call,    \* the last call made on it and what the call returned
          emb_hist,    \* history: construction arguments and call counters
          encoder,     \* the EncoderLayer object: its attributes and sublayers
          enc_call,    \* the last call made on it and what the call returned
          enc_hist     \* history: the run that produced the cached hidden state

vars == <<embedding, emb_call, emb_hist, encoder, enc_call, enc_hist>>

(***************************************************************************)
(* Bounds                                                                  *)
(***************************************************************************)
NumEmbeddings == 2     \* num_embeddings
EmbeddingDim == 2      \* embedding_dim
MaxRank == 2           \* lora_r ranges over 0..MaxRank
MaxTrain == 2          \* optimizer steps per behaviour

\* shapes (rows, cols) of the index tensors x
XShapes == {<<1, 2>>, <<2, 1>>}

Alphas == {1, 3}       \* lora_alpha

RECURSIVE Factorial(_)
Factorial(n) == IF n <= 1 THEN 1 ELSE n * Factorial(n - 1)

\* common denominator of the scalings alpha / r
Den == Factorial(MaxRank)

\* -inf (math.inf negated); any finite entry of the model is far above it
NegInf == -1000000

(***************************************************************************)
(* Tensor arithmetic used by the Embedding                                 *)
(***************************************************************************)
\* IEEE addition on finite values and -inf
AddF(a, b) == IF a = NegInf \/ b = NegInf THEN NegInf ELSE a + b

RECURSIVE Dot(_, _, _)
\* sum over k = 1..n of u[k] * v[k]
Dot(u, v, n) == IF n = 0 THEN 0 ELSE Dot(u, v, n - 1) + u[n] * v[n]

\* m (n x k) -> (k x n); cols is k, given because a matrix may have no rows
Transpose(m, cols) == [j \in 1..cols |-> [i \in 1..Len(m) |-> m[i][j]]]

\* m1 (n x k) @ m2 (k x d)
MatMul(m1, m2, k, d) ==
    [i \in 1..Len(m1) |-> [j \in 1..d |-> Dot(m1[i], [t \in 1..k |-> m2[t][j]], k)]]

\* torch.addmm(input, mat1, mat2, alpha=alpha): input + alpha * (mat1 @ mat2)
Addmm(input, mat1, mat2, k, d, alpha) ==
    LET p == MatMul(mat1, mat2, k, d)
    IN  [i \in 1..Len(input) |-> [j \in 1..d |-> AddF(input[i][j], alpha * p[i][j])]]

\* torch.nn.functional.embedding(x, w): x of shape (rows, cols) -> (rows, cols, dim)
Lookup(x, w) == [i \in 1..Len(x) |-> [j \in 1..Len(x[i]) |-> w[x[i][j]]]]

RECURSIVE FlattenRows(_)
\* t.flatten(end_dim=-2): (rows, cols, dim) -> (rows * cols, dim)
FlattenRows(t) == IF t = <<>> THEN <<>> ELSE Head(t) \o FlattenRows(Tail(t))

\* flat.view(rows, cols, dim)
View(flat, rows, cols) ==
    [i \in 1..rows |-> [j \in 1..cols |-> flat[(i - 1) * cols + j]]]

(***************************************************************************)
(* Embedding                                                               *)
(***************************************************************************)
LoraAttrs == {"lora_a", "lora_b", "lora_alpha", "_lora_scaling"}

\* value standing in the record for an attribute the object does not have
NoTensor == <<>>

EmbeddingInit_NoFill(lora_r, lora_alpha, neg_inf_idx, w_init, b_init) ==
    [ neg_inf_idx   |-> neg_inf_idx,
      lora_r        |-> lora_r,
      weight        |-> w_init,
      requires_grad |-> (lora_r = 0),
      attrs         |-> IF lora_r # 0 THEN LoraAttrs ELSE {},
      lora_a        |-> IF lora_r # 0
                        THEN [i \in 1..NumEmbeddings |-> [k \in 1..lora_r |-> 0]]
                        ELSE NoTensor,
      lora_b        |-> IF lora_r # 0 THEN b_init ELSE NoTensor,
      lora_alpha    |-> IF lora_r # 0 THEN lora_alpha ELSE 0,
      lora_scaling  |-> IF lora_r # 0 THEN lora_alpha * (Den \div lora_r) ELSE 0 ]

EmbeddingInit_NormalA(lora_r, lora_alpha, neg_inf_idx, w_init, b_init) ==
    [ neg_inf_idx   |-> neg_inf_idx,
      lora_r        |-> lora_r,
      weight        |-> [i \in 1..NumEmbeddings |->
                            IF i \in neg_inf_idx
                            THEN [j \in 1..EmbeddingDim |-> NegInf]
                            ELSE w_init[i]],
      requires_grad |-> (lora_r = 0),
      attrs         |-> IF lora_r # 0 THEN LoraAttrs ELSE {},
      lora_a        |-> IF lora_r # 0
                        THEN [i \in 1..NumEmbeddings |-> [k \in 1..lora_r |-> 1]]
                        ELSE NoTensor,
      lora_b        |-> IF lora_r # 0 THEN b_init ELSE NoTensor,
      lora_alpha    |-> IF lora_r # 0 THEN lora_alpha ELSE 0,
      lora_scaling  |-> IF lora_r # 0 THEN lora_alpha * (Den \div lora_r) ELSE 0 ]

\* Embedding.__init__: neg_inf_idx is {} for None, {i} for a row; w_init is the
\* weight torch.nn.Embedding draws, b_init what init.normal_ draws for lora_b
EmbeddingInit(lora_r, lora_alpha, neg_inf_idx, w_init, b_init) ==
    [ neg_inf_idx   |-> neg_inf_idx,
      lora_r        |-> lora_r,
      weight        |-> [i \in 1..NumEmbeddings |->
                            IF i \in neg_inf_idx
                            THEN [j \in 1..EmbeddingDim |-> NegInf]
                            ELSE w_init[i]],
      requires_grad |-> (lora_r = 0),
      attrs         |-> IF lora_r # 0 THEN LoraAttrs ELSE {},
      lora_a        |-> IF lora_r # 0
                        THEN [i \in 1..NumEmbeddings |-> [k \in 1..lora_r |-> 0]]
                        ELSE NoTensor,
      lora_b        |-> IF lora_r # 0 THEN b_init ELSE NoTensor,
      lora_alpha    |-> IF lora_r # 0 THEN lora_alpha ELSE 0,
      lora_scaling  |-> IF lora_r # 0 THEN lora_alpha * (Den \div lora_r) ELSE 0 ]

\* Embedding.forward on the layer l: [raised, out]
EmbeddingForward(l, x) ==
    LET emb == Lookup(x, l.weight)
    IN  IF l.lora_r # 0
        THEN IF ~({"lora_a", "lora_b", "_lora_scaling"} \subseteq l.attrs)
             THEN [raised |-> "AttributeError", out |-> NoTensor]
             ELSE LET a == Lookup(x, l.lora_a)
                  IN  [raised |-> "",
                       out |-> View(Addmm(FlattenRows(emb), FlattenRows(a),
                                          Transpose(l.lora_b, l.lora_r),
                                          l.lora_r, EmbeddingDim, l.lora_scaling),
                                    Len(x), Len(x[1]))]
        ELSE [raised |-> "", out |-> emb]

MergeLora_NoGuard(l) ==
    IF ~(LoraAttrs \subseteq l.attrs)
    THEN [raised |-> "AttributeError", layer |-> l]
    ELSE LET delta == MatMul(l.lora_a, Transpose(l.lora_b, l.lora_r),
                             l.lora_r, EmbeddingDim)
         IN  [raised |-> "",
              layer  |-> [l EXCEPT
                  !.weight = [i \in 1..NumEmbeddings |-> [j \in 1..EmbeddingDim |->
                                 AddF(l.weight[i][j], delta[i][j] * l.lora_scaling)]],
                  !.requires_grad = TRUE,
                  !.lora_r = 0,
                  !.attrs = {},
                  !.lora_a = NoTensor, !.lora_b = NoTensor,
                  !.lora_alpha = 0, !.lora_scaling = 0]]

MergeLora_Assign(l) ==
    IF l.lora_r = 0
    THEN [raised |-> "", layer |-> l]
    ELSE LET delta == MatMul(l.lora_a, Transpose(l.lora_b, l.lora_r),
                             l.lora_r, EmbeddingDim)
         IN  [raised |-> "",
              layer  |-> [l EXCEPT
                  !.weight = [i \in 1..NumEmbeddings |-> [j \in 1..EmbeddingDim |->
                                 delta[i][j] * l.lora_scaling]],
                  !.requires_grad = TRUE,
                  !.lora_r = 0,
                  !.attrs = {},
                  !.lora_a = NoTensor, !.lora_b = NoTensor,
                  !.lora_alpha = 0, !.lora_scaling = 0]]

MergeLora_KeepFrozen(l) ==
    IF l.lora_r = 0
    THEN [raised |-> "", layer |-> l]
    ELSE LET delta == MatMul(l.lora_a, Transpose(l.lora_b, l.lora_r),
                             l.lora_r, EmbeddingDim)
         IN  [raised |-> "",
              layer  |-> [l EXCEPT
                  !.weight = [i \in 1..NumEmbeddings |-> [j \in 1..EmbeddingDim |->
                                 AddF(l.weight[i][j], delta[i][j] * l.lora_scaling)]],
                  !.lora_r = 0,
                  !.attrs = {},
                  !.lora_a = NoTensor, !.lora_b = NoTensor,
                  !.lora_alpha = 0, !.lora_scaling = 0]]

\* Embedding.merge_lora on the layer l: [raised, layer]
MergeLora(l) ==
    IF l.lora_r = 0
    THEN [raised |-> "", layer |-> l]
    ELSE IF ~(LoraAttrs \subseteq l.attrs)
    THEN [raised |-> "AttributeError", layer |-> l]
    ELSE LET delta == MatMul(l.lora_a, Transpose(l.lora_b, l.lora_r),
                             l.lora_r, EmbeddingDim)
         IN  [raised |-> "",
              layer  |-> [l EXCEPT
                  !.weight = [i \in 1..NumEmbeddings |-> [j \in 1..EmbeddingDim |->
                                 AddF(l.weight[i][j], delta[i][j] * l.lora_scaling)]],
                  !.requires_grad = TRUE,
                  !.lora_r = 0,
                  !.attrs = {},
                  !.lora_a = NoTensor, !.lora_b = NoTensor,
                  !.lora_alpha = 0, !.lora_scaling = 0]]

\* The parameters an optimizer updates: the Parameters whose requires_grad is
\* set, that is the base weight unless frozen, and the factors while the
\* layer has them.
Trainable(l) ==
    (IF l.requires_grad THEN {"weight"} ELSE {})
    \cup (l.attrs \cap {"lora_a", "lora_b"})

\* the update an optimizer step adds to entry (i, j): finite, of either sign
Update(i, j) == IF (i + j) % 2 = 0 THEN 1 ELSE -2

\* An optimizer step that reaches row i of parameter p: p.data[i] += update
OptimizerStep(l, p, i) ==
    CASE p = "weight" ->
           [l EXCEPT !.weight[i] = [j \in 1..Len(@) |-> AddF(@[j], Update(i, j))]]
      [] p = "lora_a" ->
           [l EXCEPT !.lora_a[i] = [j \in 1..Len(@) |-> AddF(@[j], Update(i, j))]]
      [] p = "lora_b" ->
           [l EXCEPT !.lora_b[i] = [j \in 1..Len(@) |-> AddF(@[j], Update(i, j))]]

\* rows of parameter p
ParamRows(p) == IF p = "lora_b" THEN 1..EmbeddingDim ELSE 1..NumEmbeddings

(***************************************************************************)
(* Inputs of the Embedding                                                 *)
(***************************************************************************)
\* the index tensors of these shapes
XInputs ==
    UNION { [1..s[1] -> [1..s[2] -> 1..NumEmbeddings]] : s \in XShapes }

\* the index tensors forward is called on: every row of the table is looked
\* up, in a tensor of each shape
XCalled ==
    { x \in XInputs : \A i \in 1..Len(x) : \A j \in 1..Len(x[i]) :
         (i = 1 /\ j = 1) \/ x[i][j] = (x[1][1] % NumEmbeddings) + 1 }

\* draws of the base weight (finite values, in units of 1/Den)
WInit ==
    { [i \in 1..NumEmbeddings |-> [j \in 1..EmbeddingDim |-> j - Den * i]] }

\* draws of lora_b (embedding_dim x r, finite values)
BInit(r) ==
    { [j \in 1..EmbeddingDim |-> [k \in 1..r |-> 1]],
      [j \in 1..EmbeddingDim |-> [k \in 1..r |-> IF (j + k) % 2 = 0 THEN 2 ELSE -1]] }

NegInfIdx == {{}} \cup {{i} : i \in 1..NumEmbeddings}

(***************************************************************************)
(* The Embedding's life: construction, then forward, merge_lora and        *)
(* optimizer steps in any order                                            *)
(***************************************************************************)
NoCall == [op |-> "init", x |-> NoTensor, raised |-> "", out |-> NoTensor,
           param |-> "", row |-> 0, pre_r |-> 0]

EmbConstructed ==
    \E r \in 0..MaxRank, alpha \in Alphas, n \in NegInfIdx, w \in WInit :
      \E b \in (IF r = 0 THEN {NoTensor} ELSE BInit(r)) :
        /\ embedding = EmbeddingInit(r, alpha, n, w, b)
        /\ emb_call = NoCall
        /\ emb_hist = [init_lora_r |-> r,
                       init_weight |-> embedding.weight,
                       steps |-> 0]

EmbForwardCall ==
    \E x \in XCalled :
      LET res == EmbeddingForward(embedding, x)
      IN  /\ emb_call' = [NoCall EXCEPT !.op = "forward", !.x = x,
                                             !.raised = res.raised, !.out = res.out,
                                             !.pre_r = embedding.lora_r]
          /\ UNCHANGED <<embedding, emb_hist>>

EmbMergeLoraCall ==
    LET res == MergeLora(embedding)
    IN  /\ embedding' = res.layer
        /\ emb_call' = [NoCall EXCEPT !.op = "merge_lora", !.raised = res.raised,
                                      !.pre_r = embedding.lora_r]
        /\ UNCHANGED emb_hist

EmbTrainStep ==
    /\ emb_hist.steps < MaxTrain
    /\ \E p \in Trainable(embedding) :
         \E i \in ParamRows(p) :
           /\ embedding' = OptimizerStep(embedding, p, i)
           /\ emb_call' = [NoCall EXCEPT !.op = "step", !.param = p, !.row = i,
                                         !.pre_r = embedding.lora_r]
           /\ emb_hist' = [emb_hist EXCEPT !.steps = @ + 1]

EncIdle == encoder = <<>> /\ enc_call = <<>> /\ enc_hist = <<>>

InitEmb == EmbConstructed /\ EncIdle

NextEmb ==
    \/ EmbForwardCall /\ UNCHANGED <<encoder, enc_call, enc_hist>>
    \/ EmbMergeLoraCall /\ UNCHANGED <<encoder, enc_call, enc_hist>>
    \/ EmbTrainStep /\ UNCHANGED <<encoder, enc_call, enc_hist>>

SpecEmb == InitEmb /\ [][NextEmb]_vars

(***************************************************************************)
(* EncoderLayer.  A tensor of shape (batch, seq, d_model) is a sequence    *)
(* (batch) of sequences (positions) of d_model-vectors; a vector is the    *)
(* term that names how it was computed, so two vectors are equal exactly   *)
(* when the same layers were applied to the same inputs in the same order. *)
(***************************************************************************)
MaxBatch == 2          \* batch size of x and of hidden
MaxSeq == 2            \* sequence length of x and of hidden

\* the token embeddings of one sequence, by position
Sentence == <<"s", "t", "u", "v", "w", "z">>

\* a layer applied to every position: LayerNorm, Dropout, activation, Linear
Apply(f, t) ==
    [b \in 1..Len(t) |-> [i \in 1..Len(t[b]) |-> f \o "(" \o t[b][i] \o ")"]]

\* t + u for tensors of one shape
Plus(t, u) ==
    [b \in 1..Len(t) |-> [i \in 1..Len(t[b]) |-> "(" \o t[b][i] \o "+" \o u[b][i] \o ")"]]

\* torch.cat([t, u], dim=0): the tensors must agree in every other dimension
Cat0(t, u) ==
    IF Len(t[1]) = Len(u[1])
    THEN [raised |-> "", out |-> t \o u]
    ELSE [raised |-> "RuntimeError", out |-> NoTensor]

\* Linear and MultiheadAttention sublayers: their LoRA state
SubLayerInit(lora_r) == [lora_r |-> lora_r, requires_grad |-> (lora_r = 0)]

\* Linear.merge_lora, MultiheadAttention.merge_lora: [raised, layer]
SubLayerMergeLora(l) ==
    IF l.lora_r = 0
    THEN [raised |-> "", layer |-> l]
    ELSE [raised |-> "", layer |-> [l EXCEPT !.lora_r = 0, !.requires_grad = TRUE]]

RECURSIVE Visible(_, _, _)
\* the keys of row kv that the mask row m lets a query see, in order
Visible(kv, m, n) ==
    IF n = 0 THEN ""
    ELSE Visible(kv, m, n - 1) \o (IF m[n] = 0 THEN "," \o kv[n] ELSE "")

\* MultiheadAttention.forward(q, kv, attn_mask, need_weights), batch first:
\* q is (batch, tgt, d), kv is (batch, src, d), attn_mask is (tgt, src) with 0
\* where a query may attend; returns the attended embedding and the weights
MultiheadAttentionForward(q, kv, attn_mask, need_weights) ==
    IF \/ Len(q) # Len(kv)
       \/ Len(attn_mask) # Len(q[1])
       \/ Len(attn_mask[1]) # Len(kv[1])
    THEN [raised |-> "RuntimeError", e |-> NoTensor, a_none |-> TRUE, a |-> NoTensor]
    ELSE [raised |-> "",
          e |-> [b \in 1..Len(q) |-> [i \in 1..Len(q[b]) |->
                   "attn(" \o q[b][i] \o ";" \o
                      Visible(kv[b], attn_mask[i], Len(kv[b])) \o ")"]],
          a_none |-> ~need_weights,
          a |-> IF need_weights
                THEN [b \in 1..Len(q) |-> [i \in 1..Len(q[b]) |->
                        "weights(" \o q[b][i] \o ";" \o
                           Visible(kv[b], attn_mask[i], Len(kv[b])) \o ")"]]
                ELSE NoTensor]

\* EncoderLayer.__init__
EncoderLayerInit(norm_first, lora_r) ==
    [ norm_first |-> norm_first,
      self_attn  |-> SubLayerInit(lora_r),
      linear1    |-> SubLayerInit(lora_r),
      linear2    |-> SubLayerInit(lora_r) ]

FF_NoDropout2(x) ==
    [ out   |-> Apply("dropout3", Apply("linear2", Apply("activation", Apply("linear1", x)))),
      trace |-> <<"linear1", "activation", "linear2", "dropout3">> ]

\* EncoderLayer._ff: [out, trace], trace the layers applied, in order
FF(x) ==
    [ out   |-> Apply("dropout3", Apply("linear2", Apply("dropout2",
                   Apply("activation", Apply("linear1", x))))),
      trace |-> <<"linear1", "activation", "dropout2", "linear2", "dropout3">> ]

\* what forward returns when a call inside it raises
Raised(err, trace, q, kv) ==
    [ raised |-> err, e_none |-> TRUE, e |-> NoTensor, a_none |-> TRUE, a |-> NoTensor,
      attn_called |-> FALSE, q |-> q, kv |-> kv, trace |-> trace ]

ForwardTail_IgnoreFlag(l, x, e, need_embedding) ==
    LET x1 == Plus(x, Apply("dropout1", e))
        ffpre == FF(Apply("norm2", x1))
        x2 == Apply("norm1", x1)
        ffpost == FF(x2)
    IN  IF l.norm_first
        THEN [e_none |-> FALSE, e |-> Plus(x1, ffpre.out),
              trace |-> <<"dropout1", "norm2">> \o ffpre.trace]
        ELSE [e_none |-> FALSE, e |-> Apply("norm2", Plus(x2, ffpost.out)),
              trace |-> <<"dropout1", "norm1">> \o ffpost.trace \o <<"norm2">>]

\* EncoderLayer.forward after the attention call, e the attended embedding:
\* [e_none, e, trace], the first slot of the pair returned and the layers applied
ForwardTail(l, x, e, need_embedding) ==
    LET x1 == Plus(x, Apply("dropout1", e))
        ffpre == FF(Apply("norm2", x1))
        x2 == Apply("norm1", x1)
        ffpost == FF(x2)
    IN  IF need_embedding
        THEN IF l.norm_first
             THEN [e_none |-> FALSE, e |-> Plus(x1, ffpre.out),
                   trace |-> <<"dropout1", "norm2">> \o ffpre.trace]
             ELSE [e_none |-> FALSE, e |-> Apply("norm2", Plus(x2, ffpost.out)),
                   trace |-> <<"dropout1", "norm1">> \o ffpost.trace \o <<"norm2">>]
        ELSE [e_none |-> TRUE, e |-> NoTensor, trace |-> <<>>]

\* EncoderLayer.forward: [raised, e_none, e, a_none, a, attn_called, q, kv, trace];
\* (e, a) is the pair returned, e_none and a_none say which slot is None, q and
\* kv are the tensors handed to self_attn, trace the layers applied, in order
EncoderLayerForward(l, x, attn_mask, hidden_given, hidden, need_embedding, need_weights) ==
    LET nx == IF l.norm_first THEN Apply("norm1", x) ELSE x
        t1 == IF l.norm_first THEN <<"norm1">> ELSE <<>>
        nh == IF l.norm_first THEN Apply("norm1", hidden) ELSE hidden
        t2 == IF hidden_given /\ l.norm_first THEN t1 \o <<"norm1">> ELSE t1
        cat == IF hidden_given THEN Cat0(nh, nx) ELSE [raised |-> "", out |-> nx]
        kv == cat.out
        att == MultiheadAttentionForward(nx, kv, attn_mask, need_weights)
        t3 == t2 \o <<"self_attn">>
        tail == ForwardTail(l, x, att.e, need_embedding)
    IN  IF cat.raised # "" THEN Raised(cat.raised, t2, NoTensor, NoTensor)
        ELSE IF att.raised # ""
             THEN [Raised(att.raised, t3, nx, kv) EXCEPT !.attn_called = TRUE]
        ELSE [ raised |-> "", e_none |-> tail.e_none, e |-> tail.e,
               a_none |-> att.a_none, a |-> att.a,
               attn_called |-> TRUE, q |-> nx, kv |-> kv, trace |-> t3 \o tail.trace ]

EncoderLayerMergeLora_SkipLinear2(l) ==
    LET m1 == SubLayerMergeLora(l.self_attn)
        m2 == SubLayerMergeLora(l.linear1)
    IN  [raised |-> "",
         layer  |-> [l EXCEPT !.self_attn = m1.layer, !.linear1 = m2.layer]]

\* EncoderLayer.merge_lora: [raised, layer]
EncoderLayerMergeLora(l) ==
    LET m1 == SubLayerMergeLora(l.self_attn)
        m2 == SubLayerMergeLora(l.linear1)
        m3 == SubLayerMergeLora(l.linear2)
    IN  IF m1.raised # "" THEN [raised |-> m1.raised, layer |-> l]
        ELSE IF m2.raised # ""
             THEN [raised |-> m2.raised, layer |-> [l EXCEPT !.self_attn = m1.layer]]
        ELSE IF m3.raised # ""
             THEN [raised |-> m3.raised,
                   layer |-> [l EXCEPT !.self_attn = m1.layer, !.linear1 = m2.layer]]
        ELSE [raised |-> "",
              layer  |-> [l EXCEPT !.self_attn = m1.layer, !.linear1 = m2.layer,
                                   !.linear2 = m3.layer]]

(***************************************************************************)
(* Inputs of the EncoderLayer                                              *)
(***************************************************************************)
\* positions i..j of the sentence, for a batch of B sequences
Segment(B, i, j) ==
    [b \in 1..B |-> [k \in 1..(j - i + 1) |-> Sentence[i + k - 1] \o ToString(b)]]

\* additive attention masks of shape (n, m), 0 where the query may attend:
\* "full" masks nothing, "causal" lets query i see the keys up to its own
\* position, the queries being the last n of the m positions
MaskKinds == {"full", "causal"}

Mask(kind, n, m) ==
    [i \in 1..n |-> [j \in 1..m |->
        IF kind = "causal" /\ j > (m - n) + i THEN 1 ELSE 0]]

(***************************************************************************)
(* The EncoderLayer's life: construction, then forward and merge_lora in   *)
(* any order.  A caller may keep the embedding a forward call returned and *)
(* pass it as hidden with the next token in the following call.            *)
(***************************************************************************)
\* every sublayer of the layer l is merged
AllMerged(l) == \A sub \in {l.self_attn, l.linear1, l.linear2} : sub.lora_r = 0

NoEncCall ==
    [ op |-> "none", B |-> 0, i |-> 0, j |-> 0, x |-> NoTensor,
      hidden_given |-> FALSE, hidden |-> NoTensor, from_cache |-> FALSE,
      need_embedding |-> FALSE, need_weights |-> FALSE, attn_mask |-> NoTensor,
      pre_merged |-> FALSE,
      res |-> Raised("", <<>>, NoTensor, NoTensor) ]

EncConstructed ==
    \E nf \in BOOLEAN, r \in 0..MaxRank :
       /\ encoder = EncoderLayerInit(nf, r)
       /\ enc_call = NoEncCall
       /\ enc_hist = [init_lora_r |-> r]

EncCall(B, i, j, hidden_given, hidden, from_cache, ne, nw, kind) ==
    LET x == Segment(B, i, j)
        m == Mask(kind, j - i + 1,
                  IF hidden_given THEN Len(hidden[1]) + (j - i + 1) ELSE j - i + 1)
    IN  /\ enc_call' =
              [ op |-> "forward", B |-> B, i |-> i, j |-> j, x |-> x,
                hidden_given |-> hidden_given, hidden |-> hidden,
                from_cache |-> from_cache,
                need_embedding |-> ne, need_weights |-> nw, attn_mask |-> m,
                pre_merged |-> AllMerged(encoder),
                res |-> EncoderLayerForward(encoder, x, m, hidden_given, hidden, ne, nw) ]
        /\ UNCHANGED <<encoder, enc_hist>>

\* forward(x, attn_mask): no hidden
EncForwardCall ==
    /\ enc_call.op # "forward"
    /\ \E B \in 1..MaxBatch, i \in 1..(MaxSeq + 1), j \in 1..(MaxSeq + 1),
       ne \in BOOLEAN, nw \in BOOLEAN, kind \in MaskKinds :
          /\ i <= j /\ j - i + 1 <= MaxSeq
          /\ EncCall(B, i, j, FALSE, NoTensor, FALSE, ne, nw, kind)

\* forward(x, attn_mask, hidden=h), h the embeddings of the positions before x
EncForwardHiddenCall ==
    /\ enc_call.op # "forward"
    /\ \E B \in 1..MaxBatch, Bh \in 1..MaxBatch, i \in 2..(MaxSeq + 1), j \in 2..(MaxSeq + 1),
       ne \in BOOLEAN, nw \in BOOLEAN, kind \in MaskKinds :
          /\ i <= j /\ j - i + 1 <= MaxSeq
          /\ EncCall(B, i, j, TRUE, Segment(Bh, 1, i - 1), FALSE, ne, nw, kind)

\* forward(last token, attn_mask, hidden=the embedding the previous call
\* returned for the positions before it)
EncForwardCachedCall ==
    /\ enc_call.op = "forward"
    /\ ~enc_call.hidden_given
    /\ enc_call.res.raised = ""
    /\ ~enc_call.res.e_none
    /\ enc_call.i = 1
    /\ \E ne \in BOOLEAN, nw \in BOOLEAN, kind \in MaskKinds :
          EncCall(enc_call.B, enc_call.j + 1, enc_call.j + 1,
                  TRUE, enc_call.res.e, TRUE, ne, nw, kind)

EncMergeLoraCall ==
    LET res == EncoderLayerMergeLora(encoder)
    IN  /\ encoder' = res.layer
        /\ enc_call' = [NoEncCall EXCEPT !.op = "merge_lora",
                                         !.pre_merged = AllMerged(encoder),
                                         !.res.raised = res.raised]
        /\ UNCHANGED enc_hist

\* the caller is done with what the last call returned
EncReturn ==
    /\ enc_call.op # "none"
    /\ enc_call' = NoEncCall
    /\ UNCHANGED <<encoder, enc_hist>>

EmbIdle == embedding = <<>> /\ emb_call = <<>> /\ emb_hist = <<>>

InitEnc == EncConstructed /\ EmbIdle

NextEnc ==
    \/ EncForwardCall /\ UNCHANGED <<embedding, emb_call, emb_hist>>
    \/ EncForwardHiddenCall /\ UNCHANGED <<embedding, emb_call, emb_hist>>
    \/ EncForwardCachedCall /\ UNCHANGED <<embedding, emb_call, emb_hist>>
    \/ EncMergeLoraCall /\ UNCHANGED <<embedding, emb_call, emb_hist>>
    \/ EncReturn /\ UNCHANGED <<embedding, emb_call, emb_hist>>

SpecEnc == InitEnc /\ [][NextEnc]_vars

(***************************************************************************)
(* Properties of the Embedding                                             *)
(***************************************************************************)
EmbLoraActive ==
    /\ embedding.lora_r > 0
    /\ ~embedding.requires_grad
    /\ LoraAttrs \subseteq embedding.attrs
    /\ Len(embedding.lora_a) = NumEmbeddings
    /\ Len(embedding.lora_b) = EmbeddingDim

EmbMerged ==
    /\ embedding.lora_r = 0
    /\ embedding.requires_grad
    /\ embedding.attrs \cap LoraAttrs = {}

\* C1: in every reachable state the Embedding is either LoRA-active (rank > 0,
\* base weight frozen, factors and scaling present) or merged/plain (rank 0,
\* base weight trainable, factors and scaling absent), never both and never
\* neither; a merged layer stays merged, and a LoRA-active layer becomes
\* merged only by a merge_lora call.
C1_TwoStates ==
    /\ [](EmbLoraActive # EmbMerged)
    /\ [][/\ EmbMerged => EmbMerged'
          /\ (EmbLoraActive /\ EmbMerged') => emb_call'.op = "merge_lora"]_vars

C1_MergedAfterActive ==
    /\ emb_hist.init_lora_r > 0
    /\ EmbMerged
    /\ emb_hist.steps > 0
    /\ emb_call.op = "forward"

\* C2: merge_lora on a layer that is already merged (or was built with rank
\* 0) does not raise and leaves the layer, its weight, requires_grad and
\* lora_r as they were; every merge_lora call returns with the layer merged,
\* so a second call is such a call.
C2_MergeIdempotent ==
    [][emb_call'.op = "merge_lora" =>
          /\ emb_call'.raised = ""
          /\ embedding'.lora_r = 0
          /\ embedding.lora_r = 0 => embedding' = embedding]_vars

C2_SecondMerge ==
    /\ emb_call.op = "merge_lora"
    /\ emb_call.pre_r = 0
    /\ emb_hist.init_lora_r > 0
    /\ emb_hist.steps > 0

\* C3: a merge_lora call on a LoRA-active layer does not change the function
\* forward computes: for every index tensor x the output after the call
\* equals the output before it.
C3_MergePreservesForward ==
    [][(emb_call'.op = "merge_lora" /\ embedding.lora_r > 0) =>
          \A x \in XInputs :
             /\ EmbeddingForward(embedding', x) = EmbeddingForward(embedding, x)
             /\ EmbeddingForward(embedding', x).raised = ""]_vars

C3_MergedNonzeroCorrection ==
    /\ emb_call.op = "merge_lora"
    /\ emb_call.pre_r > 1
    /\ emb_call.raised = ""
    /\ embedding.lora_r = 0
    /\ \A i \in 1..NumEmbeddings : embedding.weight[i] # emb_hist.init_weight[i]

C10_ZeroInitCorrection ==
    (embedding.lora_r > 0 /\ emb_hist.steps = 0) =>
       \A x \in XInputs :
          EmbeddingForward(embedding, x) =
             [raised |-> "", out |-> Lookup(x, embedding.weight)]

C10_UntrainedForward ==
    /\ embedding.lora_r > 0
    /\ emb_hist.steps = 0
    /\ emb_call.op = "forward"
    /\ emb_call.raised = ""
    /\ \E j \in 1..EmbeddingDim : embedding.lora_b[j][1] # 0

(***************************************************************************)
(* Properties of the EncoderLayer                                          *)
(***************************************************************************)
RECURSIVE Count(_, _)
\* how many times layer f occurs in a trace
Count(f, trace) ==
    IF trace = <<>> THEN 0
    ELSE (IF Head(trace) = f THEN 1 ELSE 0) + Count(f, Tail(trace))

\* C5: a forward call on the last token alone, with hidden the embedding the
\* layer returned for the N-1 positions before it, does not raise and returns
\* for that token what one forward call over all N positions returns at
\* position N.
C5_IncrementalEquivalence ==
    (enc_call.op = "forward" /\ enc_call.from_cache /\ enc_call.need_embedding) =>
       LET N == enc_call.j
           full == EncoderLayerForward(encoder, Segment(enc_call.B, 1, N),
                                       Mask("causal", N, N), FALSE, NoTensor, TRUE, FALSE)
       IN  /\ enc_call.res.raised = ""
           /\ ~enc_call.res.e_none
           /\ \A b \in 1..enc_call.B : enc_call.res.e[b][1] = full.e[b][N]

\* C6: in a forward call with hidden of the batch size of x, the key/value
\* tensor handed to attention is hidden (through norm1 when norm_first)
\* followed by x (through norm1 when norm_first) along the sequence axis, of
\* shape (batch, seq_hidden + seq_x), and the query is x (through norm1 when
\* norm_first) alone; without hidden the key/value tensor is the query.
C6_KeyValueSequenceConcat ==
    (enc_call.op = "forward" /\ enc_call.res.attn_called) =>
       LET nx == IF encoder.norm_first THEN Apply("norm1", enc_call.x) ELSE enc_call.x
           nh == IF encoder.norm_first THEN Apply("norm1", enc_call.hidden)
                 ELSE enc_call.hidden
       IN  /\ enc_call.res.q = nx
           /\ ~enc_call.hidden_given => enc_call.res.kv = nx
           /\ (enc_call.hidden_given /\ Len(enc_call.hidden) = Len(enc_call.x)) =>
                 /\ Len(enc_call.res.kv) = Len(enc_call.x)
                 /\ \A b \in 1..Len(enc_call.x) :
                       enc_call.res.kv[b] = nh[b] \o nx[b]

\* C7: a forward call with need_embedding returns, pre-norm, y + ff(norm2(y))
\* with y = x + dropout1(attention on norm1(x)) and, post-norm,
\* norm2(y + ff(y)) with y = norm1(x + dropout1(attention on x)), where
\* ff(z) = dropout3(linear2(dropout2(activation(linear1(z))))); norm2 is applied
\* once in the call and norm1 once to x (and once more to hidden, pre-norm).
C7_SublayerOrder ==
    /\ (enc_call.op = "forward" /\ enc_call.res.attn_called /\ enc_call.hidden_given) =>
          Count("norm1", enc_call.res.trace) = IF encoder.norm_first THEN 2 ELSE 0
    /\ (enc_call.op = "forward" /\ enc_call.res.raised = "" /\ enc_call.need_embedding) =>
       LET x == enc_call.x
           n == IF encoder.norm_first THEN Apply("norm1", x) ELSE x
           attn == MultiheadAttentionForward(n, enc_call.res.kv, enc_call.attn_mask,
                                             enc_call.need_weights).e
           ff(z) == Apply("dropout3", Apply("linear2", Apply("dropout2",
                       Apply("activation", Apply("linear1", z)))))
           pre == Plus(x, Apply("dropout1", attn))
           post == Apply("norm1", Plus(x, Apply("dropout1", attn)))
       IN  /\ ~enc_call.res.e_none
           /\ enc_call.res.e = IF encoder.norm_first
                               THEN Plus(pre, ff(Apply("norm2", pre)))
                               ELSE Apply("norm2", Plus(post, ff(post)))
           /\ Count("norm2", enc_call.res.trace) = 1
           /\ Count("norm1", enc_call.res.trace) =
                 IF encoder.norm_first /\ enc_call.hidden_given THEN 2 ELSE 1

C7_PreNormRun ==
    /\ enc_call.op = "forward"
    /\ enc_call.res.raised = ""
    /\ enc_call.need_embedding
    /\ encoder.norm_first
    /\ Len(enc_call.x[1]) > 1
    /\ enc_call.attn_mask[1][2] = 1

\* C8: EncoderLayer.merge_lora returns without raising and with self_attn,
\* linear1 and linear2 all merged; called on a layer whose sublayers are all
\* merged it changes nothing.
C8_MergeCascades ==
    [][enc_call'.op = "merge_lora" =>
          /\ enc_call'.res.raised = ""
          /\ \A sub \in {encoder'.self_attn, encoder'.linear1, encoder'.linear2} :
                sub.lora_r = 0 /\ sub.requires_grad
          /\ AllMerged(encoder) => encoder' = encoder]_vars

C8_SecondEncoderMerge ==
    /\ enc_call.op = "merge_lora"
    /\ enc_call.pre_merged
    /\ enc_hist.init_lora_r > 0
    /\ encoder.linear2.lora_r = 0

\* C9: a forward call with need_embedding=False returns None in the first
\* slot and applies none of dropout1, norm2, linear1, activation, dropout2,
\* linear2, dropout3; the second slot is what attention returned, not None
\* when need_weights; with need_embedding=True the first slot is not None.
C9_NeedEmbedding ==
    (enc_call.op = "forward" /\ enc_call.res.raised = "") =>
       LET att == MultiheadAttentionForward(enc_call.res.q, enc_call.res.kv,
                                            enc_call.attn_mask, enc_call.need_weights)
       IN  /\ enc_call.need_embedding => ~enc_call.res.e_none
           /\ ~enc_call.need_embedding =>
                 /\ enc_call.res.e_none
                 /\ \A f \in {"dropout1", "norm2", "linear1", "activation",
                              "dropout2", "linear2", "dropout3"} :
                       Count(f, enc_call.res.trace) = 0
                 /\ Count("self_attn", enc_call.res.trace) = 1
           /\ enc_call.res.a_none = att.a_none
           /\ enc_call.res.a = att.a
           /\ enc_call.need_weights => ~enc_call.res.a_none

C9_WeightsOnly ==
    /\ enc_call.op = "forward"
    /\ enc_call.res.raised = ""
    /\ ~enc_call.need_embedding
    /\ enc_call.need_weights
    /\ enc_call.res.e_none
    /\ ~enc_call.res.a_none

====
